---------------------------- MODULE Spec2Model ----------------------------
(***************************************************************************)
(* Model of the BC Parks day-use pass monitors:                            *)
(*   src/Joffrey_Lake.py      MultiParkMonitor        (monitor = "multi")  *)
(*   src/all_park_monitor.py  JoffreThreeDaysMonitor  (monitor = "single") *)
(* Text is a sequence of one-character strings, so that Python's           *)
(* substring test `x in page_text` and str.lower() are computed, not       *)
(* assumed.                                                                *)
(***************************************************************************)
EXTENDS Naturals, Sequences, FiniteSets, TLC

VARIABLES
  monitor,            \* which script runs: "multi" or "single"
  env,                \* [token, chat]: are the two credentials set in the environment
  pc,                 \* position of the single thread of control
  ret_pc,             \* where send_telegram returns to
  sorted_parks,       \* check_all_*: the parks in the order they are checked
  p, d, i,            \* indices of the current park, date and candidate URL
  availability_found, \* local of check_*_date_availability
  response,           \* the page of the 200 response in hand (loop body only)
  parsed,             \* what the classifier returned for the last page
  park_results,       \* multi: the dates recorded for the current park
  results,            \* the dict check_all_* is building
  returned,           \* the value check_all_* returned to run_comprehensive_check
  pending,            \* the message handed to send_telegram
  sent,               \* per message kind: how many send_telegram calls were made
  current_hour,       \* the hour the summary function read
  error_hour,         \* the local hour when an exception outside the per-URL
                      \* handling was caught (the outermost handler reads it)
  all_failed,         \* has no request of the current unit been answered 200
  last_fetch,         \* how the latest session.get of the loop body ended
  last_send,          \* how the latest send_telegram ended and what it returned
  network,            \* the kinds of network request issued so far
  now,                \* the local date of the run
  twin,               \* a second page, classified beside the first one
  twin_parsed,        \* the record of the classifier's call for the second page
  requested,          \* the URLs session.get was called for in the current unit
  fetches,            \* how many session.get calls check_all_* has made so far
  settled,            \* units one of whose pages has been classified AVAILABLE
  notified,           \* per unit: availability notifications attempted
  paced,              \* has a pacing sleep run since the latest session.get
  raised,             \* where an exception outside the per-URL handling was caught
  exit_status         \* the status main ended with, in a set that is empty while main runs

vars == << monitor, env, pc, ret_pc, sorted_parks, p, d, i, availability_found,
           response, parsed, park_results, results, returned, pending, sent,
           current_hour, error_hour, all_failed, last_fetch, last_send, network,
           now, twin, twin_parsed, requested, fetches, settled, notified,
           paced, raised, exit_status >>

-----------------------------------------------------------------------------
(* Bounds of the model *)

\* how many parks of the registry a run covers
MaxParks == 2
\* how many elements a fetched document has at most (classifier inputs)
MaxNodes == 3
\* how many elements each page of a pair of pages has at most
MaxPairNodes == 3
\* how many elements a page fetched during a run has at most
MaxRunNodes == 2

-----------------------------------------------------------------------------
(* Text *)

UpperChars ==
  <<"A","B","C","D","E","F","G","H","I","J","K","L","M","N","O","P","Q","R","S","T","U","V","W","X","Y","Z">>

LowerChars ==
  <<"a","b","c","d","e","f","g","h","i","j","k","l","m","n","o","p","q","r","s","t","u","v","w","x","y","z">>

\* str.lower() on one character
LowerChar(c) ==
  IF \E k \in DOMAIN UpperChars : UpperChars[k] = c
  THEN LowerChars[CHOOSE k \in DOMAIN UpperChars : UpperChars[k] = c]
  ELSE c

\* str.lower()
Lower(s) == [k \in 1..Len(s) |-> LowerChar(s[k])]

\* Python's `sub in text` on strings
Contains(text, sub) ==
  \E k \in 0..(Len(text) - Len(sub)) : \A j \in 1..Len(sub) : text[k + j] = sub[j]

\* any(word in text for word in words)
AnyIn(words, text) == \E k \in DOMAIN words : Contains(text, words[k])

\* a variant that stops at the first indicator found
MatchesFirst(indicators, text) ==
  LET found == SelectSeq(indicators, LAMBDA ind : Contains(text, ind))
  IN  SubSeq(found, 1, IF Len(found) < 1 THEN Len(found) ELSE 1)

\* [ind for ind in indicators if ind in text]
Matches(indicators, text) == SelectSeq(indicators, LAMBDA ind : Contains(text, ind))

\* a variant that does not slice
TakeAll(s, n) == s

\* a Python slice seq[:n]
Take(s, n) == SubSeq(s, 1, IF Len(s) < n THEN Len(s) ELSE n)

-----------------------------------------------------------------------------
(* Dates: datetime, timedelta and strftime as the code uses them *)

\* the local date datetime.now(self.timezone) gives during a run
RunDate == [year |-> 2025, month |-> 12, day |-> 30]

\* the dates the date matching is checked on
Dates == { RunDate, [year |-> 2025, month |-> 7, day |-> 9] }

is_leap(year) == (year % 4 = 0 /\ year % 100 # 0) \/ year % 400 = 0

days_in_month(year, month) ==
  IF month = 2 THEN (IF is_leap(year) THEN 29 ELSE 28)
  ELSE IF month \in { 4, 6, 9, 11 } THEN 30 ELSE 31

\* date_obj + timedelta(days=n)
RECURSIVE timedelta(_, _)
timedelta(date_obj, n) ==
  IF n = 0 THEN date_obj
  ELSE timedelta(
         IF date_obj.day < days_in_month(date_obj.year, date_obj.month)
         THEN [date_obj EXCEPT !.day = @ + 1]
         ELSE IF date_obj.month < 12
              THEN [date_obj EXCEPT !.month = @ + 1, !.day = 1]
              ELSE [year |-> date_obj.year + 1, month |-> 1, day |-> 1],
         n - 1)

\* get_target_dates
get_target_dates(current) ==
  [today |-> current, tomorrow |-> timedelta(current, 1), day_after |-> timedelta(current, 2)]

DigitChar(n) == << "0", "1", "2", "3", "4", "5", "6", "7", "8", "9" >>[n + 1]

\* %d and %m: two digits, zero padded
TwoDigits(n) == << DigitChar((n \div 10) % 10), DigitChar(n % 10) >>

\* %-d: the day without padding
PlainDigits(n) == IF n < 10 THEN << DigitChar(n) >> ELSE TwoDigits(n)

\* %Y
FourDigits(n) == TwoDigits(n \div 100) \o TwoDigits(n % 100)

\* %B
month_names ==
  << <<"J","a","n","u","a","r","y">>,
     <<"F","e","b","r","u","a","r","y">>,
     <<"M","a","r","c","h">>,
     <<"A","p","r","i","l">>,
     <<"M","a","y">>,
     <<"J","u","n","e">>,
     <<"J","u","l","y">>,
     <<"A","u","g","u","s","t">>,
     <<"S","e","p","t","e","m","b","e","r">>,
     <<"O","c","t","o","b","e","r">>,
     <<"N","o","v","e","m","b","e","r">>,
     <<"D","e","c","e","m","b","e","r">> >>

\* %b
month_abbr(month) == SubSeq(month_names[month], 1, 3)

\* format_date_for_url(date_obj)['iso_date']: %Y-%m-%d
iso_date(date_obj) ==
  FourDigits(date_obj.year) \o << "-" >> \o TwoDigits(date_obj.month) \o << "-" >>
    \o TwoDigits(date_obj.day)

\* the date_keywords of parse_for_park_availability
park_date_keywords(target_date) ==
  << iso_date(target_date),
     Lower(month_names[target_date.month] \o << " " >> \o TwoDigits(target_date.day)),
     Lower(month_abbr(target_date.month) \o << " " >> \o TwoDigits(target_date.day)),
     TwoDigits(target_date.month) \o << "/" >> \o TwoDigits(target_date.day) >>

\* the date_keywords of parse_for_joffre_availability
joffre_date_keywords(target_date) ==
  << iso_date(target_date),
     Lower(month_names[target_date.month] \o << " " >> \o TwoDigits(target_date.day)),
     Lower(month_abbr(target_date.month) \o << " " >> \o TwoDigits(target_date.day)),
     Lower(TwoDigits(target_date.day) \o << " " >> \o month_names[target_date.month]),
     TwoDigits(target_date.month) \o << "/" >> \o TwoDigits(target_date.day),
     Lower(PlainDigits(target_date.day)) >>

\* any(date_keyword in page_text for date_keyword in date_keywords)
has_target_date(page_text, date_keywords) == AnyIn(date_keywords, page_text)

-----------------------------------------------------------------------------
(* The constants of the classifier *)

availability_indicators ==
  << <<"a","v","a","i","l","a","b","l","e">>,
     <<"b","o","o","k"," ","n","o","w">>,
     <<"r","e","s","e","r","v","e"," ","n","o","w">>,
     <<"s","e","l","e","c","t"," ","d","a","t","e">>,
     <<"c","h","o","o","s","e"," ","d","a","t","e">>,
     <<"s","e","l","e","c","t"," ","t","i","m","e">>,
     <<"p","u","r","c","h","a","s","e">>,
     <<"a","d","d"," ","t","o"," ","c","a","r","t">>,
     <<"b","o","o","k"," ","o","n","l","i","n","e">>,
     <<"r","e","s","e","r","v","a","t","i","o","n"," ","a","v","a","i","l","a","b","l","e">>,
     <<"m","a","k","e"," ","r","e","s","e","r","v","a","t","i","o","n">>,
     <<"d","a","y"," ","u","s","e"," ","p","a","s","s">>,
     <<"d","a","y"," ","p","a","s","s"," ","a","v","a","i","l","a","b","l","e">>,
     <<"p","a","s","s","e","s"," ","a","v","a","i","l","a","b","l","e">>,
     <<"b","o","o","k"," ","t","h","i","s"," ","d","a","t","e">>,
     <<"a","v","a","i","l","a","b","l","e"," ","f","o","r"," ","b","o","o","k","i","n","g">>,
     <<"r","e","s","e","r","v","e"," ","t","h","i","s"," ","d","a","t","e">> >>

unavailable_indicators ==
  << <<"s","o","l","d"," ","o","u","t">>,
     <<"f","u","l","l","y"," ","b","o","o","k","e","d">>,
     <<"n","o"," ","a","v","a","i","l","a","b","i","l","i","t","y">>,
     <<"u","n","a","v","a","i","l","a","b","l","e">>,
     <<"n","o"," ","p","a","s","s","e","s"," ","a","v","a","i","l","a","b","l","e">>,
     <<"b","o","o","k","i","n","g"," ","c","l","o","s","e","d">>,
     <<"n","o","t"," ","a","v","a","i","l","a","b","l","e">>,
     <<"w","a","i","t","l","i","s","t"," ","o","n","l","y">>,
     <<"n","o"," ","d","a","y"," ","u","s","e"," ","p","a","s","s","e","s">>,
     <<"p","a","s","s","e","s"," ","s","o","l","d"," ","o","u","t">>,
     <<"d","a","t","e"," ","u","n","a","v","a","i","l","a","b","l","e">>,
     <<"n","o","t"," ","a","c","c","e","p","t","i","n","g"," ","r","e","s","e","r","v","a","t","i","o","n","s">>,
     <<"f","u","l","l","y"," ","r","e","s","e","r","v","e","d">> >>

booking_words ==
  << <<"b","o","o","k">>,
     <<"r","e","s","e","r","v","e">>,
     <<"p","u","r","c","h","a","s","e">>,
     <<"s","e","l","e","c","t">>,
     <<"a","v","a","i","l","a","b","l","e">> >>

date_words ==
  << <<"d","a","t","e">>,
     <<"a","r","r","i","v","a","l">>,
     <<"v","i","s","i","t">> >>

joffre_keywords ==
  << <<"j","o","f","f","r","e">>,
     <<"j","o","f","f","r","e","y">> >>

\* self.parks, in the order the dict is written
registry ==
  << [key |-> "joffre", priority |-> 1,
      keywords |-> << <<"j","o","f","f","r","e">>, <<"j","o","f","f","r","e","y">> >>],
     [key |-> "garibaldi", priority |-> 2,
      keywords |-> << <<"g","a","r","i","b","a","l","d","i">> >>],
     [key |-> "golden-ears", priority |-> 3,
      keywords |-> << <<"g","o","l","d","e","n"," ","e","a","r","s">>, <<"g","o","l","d","e","n">> >>],
     [key |-> "alice-lake", priority |-> 4,
      keywords |-> << <<"a","l","i","c","e"," ","l","a","k","e">>, <<"a","l","i","c","e">> >>],
     [key |-> "cultus-lake", priority |-> 5,
      keywords |-> << <<"c","u","l","t","u","s"," ","l","a","k","e">>, <<"c","u","l","t","u","s">> >>],
     [key |-> "porteau-cove", priority |-> 6,
      keywords |-> << <<"p","o","r","t","e","a","u"," ","c","o","v","e">>, <<"p","o","r","t","e","a","u">> >>] >>

-----------------------------------------------------------------------------
(* Fetched documents.  A document is what BeautifulSoup(html, 'html.parser')  *)
(* holds: its elements in document order, each with its tag, the text under  *)
(* it, whether that text is its only child (then Tag.string is that text,    *)
(* otherwise Tag.string is None) and its name attribute (<<>> when absent).  *)
(* Malformed stands for content on which the parser raises.                  *)

Malformed == [wellformed |-> FALSE, elements |-> <<>>]

\* <h1>Joffre Lakes</h1>
JoffreHeading ==
  [tag |-> "h1", text |-> <<"J","o","f","f","r","e"," ","L","a","k","e","s">>, single |-> TRUE, name |-> <<>>]

\* <h2>Garibaldi</h2>
GaribaldiHeading ==
  [tag |-> "h2", text |-> <<"G","a","r","i","b","a","l","d","i">>, single |-> TRUE, name |-> <<>>]

\* <a href="...">Book Now</a>
BookNowLink ==
  [tag |-> "a", text |-> <<"B","o","o","k"," ","N","o","w">>, single |-> TRUE, name |-> <<>>]

\* <p>Sold Out</p>
SoldOutText ==
  [tag |-> "p", text |-> <<"S","o","l","d"," ","O","u","t">>, single |-> TRUE, name |-> <<>>]

\* <span>un</span>
UnPrefix ==
  [tag |-> "span", text |-> <<"u","n">>, single |-> TRUE, name |-> <<>>]

\* <p>Available</p>
AvailableText ==
  [tag |-> "p", text |-> <<"A","v","a","i","l","a","b","l","e">>, single |-> TRUE, name |-> <<>>]

\* <p>day use passes</p>
PassesText ==
  [tag |-> "p", text |-> <<"d","a","y"," ","u","s","e"," ","p","a","s","s","e","s">>, single |-> TRUE, name |-> <<>>]

\* <p>Passes available</p>
PassesAvailable ==
  [tag |-> "p", text |-> <<"P","a","s","s","e","s"," ","a","v","a","i","l","a","b","l","e">>, single |-> TRUE, name |-> <<>>]

\* <p>day use passes - Sold Out. No availability</p>
PassesSoldOut ==
  [tag |-> "p", text |-> <<"d","a","y"," ","u","s","e"," ","p","a","s","s","e","s"," ","-"," ","S","o","l","d"," ","O","u","t","."," ","N","o"," ","a","v","a","i","l","a","b","i","l","i","t","y">>, single |-> TRUE, name |-> <<>>]

\* <input name="arrivalDate">
ArrivalInput ==
  [tag |-> "input", text |-> <<>>, single |-> FALSE, name |-> <<"a","r","r","i","v","a","l","D","a","t","e">>]

\* <button>Reserve</button>
ReserveButton ==
  [tag |-> "button", text |-> <<"R","e","s","e","r","v","e">>, single |-> TRUE, name |-> <<>>]

\* <button><i></i> Reserve</button>
IconButton ==
  [tag |-> "button", text |-> <<" ","R","e","s","e","r","v","e">>, single |-> FALSE, name |-> <<>>]

\* <input name="email">
EmailInput ==
  [tag |-> "input", text |-> <<>>, single |-> FALSE, name |-> <<"e","m","a","i","l">>]

\* <p>December 31</p>
DecemberDate ==
  [tag |-> "p", text |-> <<"D","e","c","e","m","b","e","r"," ","3","1">>, single |-> TRUE, name |-> <<>>]

\* the elements the documents of the model are made of
NodePool ==
  { JoffreHeading,
    GaribaldiHeading,
    BookNowLink,
    SoldOutText,
    UnPrefix,
    AvailableText,
    PassesText,
    PassesAvailable,
    PassesSoldOut,
    ArrivalInput,
    ReserveButton,
    IconButton,
    EmailInput }

RECURSIVE SeqsUpTo(_, _)
SeqsUpTo(S, n) ==
  IF n = 0 THEN { <<>> }
  ELSE LET shorter == SeqsUpTo(S, n - 1)
       IN  shorter \cup { Append(s, x) : s \in { t \in shorter : Len(t) = n - 1 }, x \in S }

\* the documents the classifier is checked on
Documents(n) ==
  { [wellformed |-> TRUE, elements |-> e] : e \in SeqsUpTo(NodePool, n) } \cup { Malformed }

\* the elements of the pages the site answers with during a run
RunPool == { JoffreHeading, GaribaldiHeading, BookNowLink, SoldOutText }

\* the elements of the pages that are classified in pairs
PairPool == { JoffreHeading, BookNowLink, SoldOutText, DecemberDate }

PairDocuments(n) ==
  { [wellformed |-> TRUE, elements |-> e] : e \in SeqsUpTo(PairPool, n) } \cup { Malformed }

RunDocuments(n) ==
  { [wellformed |-> TRUE, elements |-> e] : e \in SeqsUpTo(RunPool, n) } \cup { Malformed }

-----------------------------------------------------------------------------
(* The availability classifier *)

NoMsg == [kind |-> "none"]

\* soup.get_text(): the text of every element, concatenated in document order
RECURSIVE get_text(_)
get_text(soup) ==
  IF soup = <<>> THEN <<>> ELSE Head(soup).text \o get_text(Tail(soup))

\* a variant that lets every page through the relevance gate
has_park_content_ungated(page_text, keywords) == TRUE

\* any(keyword in page_text for keyword in keywords)
has_park_content(page_text, keywords) == AnyIn(keywords, page_text)

\* soup.find_all(['button', 'a'], string=lambda text: text and any(word in
\* text.lower() ...)): the filter is given Tag.string, which is None unless
\* the text is the element's only child
booking_buttons(soup) ==
  SelectSeq(soup, LAMBDA n : /\ n.tag \in {"button", "a"}
                             /\ n.single
                             /\ n.text # <<>>
                             /\ AnyIn(booking_words, Lower(n.text)))

\* soup.find_all(['input', 'select'], attrs={'name': lambda x: x and any(word
\* in x.lower() ...)})
date_inputs(soup) ==
  SelectSeq(soup, LAMBDA n : /\ n.tag \in {"input", "select"}
                             /\ n.name # <<>>
                             /\ AnyIn(date_words, Lower(n.name)))

has_interactive_elements(soup) ==
  Len(booking_buttons(soup)) > 0 \/ Len(date_inputs(soup)) > 0

\* a variant that ignores the unavailability phrases
availability_detected_not_conservative(has_availability_text, has_interactive, has_unavailable_text) ==
  has_availability_text \/ has_interactive

\* a variant that wants an interactive element beside the phrase
availability_detected_needs_control(has_availability_text, has_interactive, has_unavailable_text) ==
  (has_availability_text /\ has_interactive) /\ ~has_unavailable_text

\* the condition of the first branch of the decision
availability_detected(has_availability_text, has_interactive, has_unavailable_text) ==
  (has_availability_text \/ has_interactive) /\ ~has_unavailable_text

\* a variant whose second branch is never taken
decide_without_unavailable(has_availability_text, has_interactive, has_unavailable_text) ==
  IF (has_availability_text \/ has_interactive) /\ ~has_unavailable_text
  THEN "AVAILABLE"
  ELSE "UNCLEAR"

\* the branch the decision takes once the page is known to be about the park
decide(has_availability_text, has_interactive, has_unavailable_text) ==
  IF availability_detected(has_availability_text, has_interactive, has_unavailable_text)
  THEN "AVAILABLE"
  ELSE IF has_unavailable_text THEN "UNAVAILABLE" ELSE "UNCLEAR"

\* a variant that also wants a rendering of the target date in the page
relevant_on_date(park_content, target_date_found) == park_content /\ target_date_found

\* `if not has_park_content: return False`: has_target_date is logged, not used
relevant(park_content, target_date_found) == park_content

\* the body both parse_for_*_availability functions share; `with_interactive`
\* says whether the message reports the interactive elements
classify(html_content, source_url, keywords, date_keywords, park_key, day_label, with_interactive) ==
  IF ~html_content.wellformed
  THEN [ret |-> FALSE, branch |-> "PARSE_ERROR", has_target_date |-> FALSE,
        found_availability |-> <<>>, found_unavailable |-> <<>>,
        interactive |-> FALSE, message |-> NoMsg]
  ELSE
    LET soup == html_content.elements
        page_text == Lower(get_text(soup))
        target_date_found == has_target_date(page_text, date_keywords)
    IN  IF ~relevant(has_park_content(page_text, keywords), target_date_found)
        THEN [ret |-> FALSE, branch |-> "NOT_THIS_PARK",
              has_target_date |-> target_date_found,
              found_availability |-> <<>>, found_unavailable |-> <<>>,
              interactive |-> FALSE, message |-> NoMsg]
        ELSE
          LET found_availability == Matches(availability_indicators, page_text)
              found_unavailable == Matches(unavailable_indicators, page_text)
              interactive == has_interactive_elements(soup)
              branch == decide(Len(found_availability) > 0, interactive,
                               Len(found_unavailable) > 0)
          IN  [ret |-> (branch = "AVAILABLE"),
               branch |-> branch,
               has_target_date |-> target_date_found,
               found_availability |-> found_availability,
               found_unavailable |-> found_unavailable,
               interactive |-> interactive,
               message |->
                 IF branch = "AVAILABLE"
                 THEN [kind |-> "availability", park |-> park_key, day |-> day_label,
                       url |-> source_url,
                       indicators |-> Take(found_availability, 2),
                       interactive |-> (with_interactive /\ interactive)]
                 ELSE NoMsg]

\* MultiParkMonitor.parse_for_park_availability
parse_for_park_availability(html_content, source_url, target_date, park_info, day_label) ==
  classify(html_content, source_url, park_info.keywords, park_date_keywords(target_date),
           park_info.key, day_label, FALSE)

\* JoffreThreeDaysMonitor.parse_for_joffre_availability
parse_for_joffre_availability(html_content, source_url, target_date, day_label) ==
  classify(html_content, source_url, joffre_keywords, joffre_date_keywords(target_date),
           "joffre", day_label, TRUE)

-----------------------------------------------------------------------------
(* Parks, dates and candidate URLs *)

\* Python's {} and d[k] = v
EmptyDict == << >>

Put(dict, k, v) ==
  [x \in (DOMAIN dict) \cup {k} |-> IF x = k THEN v ELSE dict[x]]

\* the keys of get_target_dates(), in the order the dict is written
days == << "today", "tomorrow", "day_after" >>

day_labels ==
  [today |-> "today", tomorrow |-> "tomorrow", day_after |-> "day after tomorrow"]

\* the parks of the registry a run of the model covers
parks == SubSeq(registry, 1, IF MaxParks < Len(registry) THEN MaxParks ELSE Len(registry))

\* a variant that sorts by descending priority
RECURSIVE sorted_descending(_)
sorted_descending(items) ==
  IF items = <<>> THEN <<>>
  ELSE LET rest == sorted_descending(SubSeq(items, 1, Len(items) - 1))
           x == items[Len(items)]
           before == SelectSeq(rest, LAMBDA y : y.priority >= x.priority)
           after == SelectSeq(rest, LAMBDA y : y.priority < x.priority)
       IN  before \o << x >> \o after

\* sorted(items, key=priority): a stable insertion sort
RECURSIVE sorted(_)
sorted(items) ==
  IF items = <<>> THEN <<>>
  ELSE LET rest == sorted(SubSeq(items, 1, Len(items) - 1))
           x == items[Len(items)]
           before == SelectSeq(rest, LAMBDA y : y.priority <= x.priority)
           after == SelectSeq(rest, LAMBDA y : y.priority > x.priority)
       IN  before \o << x >> \o after

\* MultiParkMonitor.build_park_urls
build_park_urls(park_info, day) ==
  << [route |-> "facility", facility |-> park_info.key, param |-> "none", date |-> "none"],
     [route |-> "dayuse/registration", facility |-> park_info.key, param |-> "date", date |-> day],
     [route |-> "dayuse/registration", facility |-> park_info.key, param |-> "arrivalDate", date |-> day],
     [route |-> "search", facility |-> park_info.key, param |-> "date", date |-> day],
     [route |-> "booking", facility |-> park_info.key, param |-> "date", date |-> day] >>

\* JoffreThreeDaysMonitor.build_joffre_urls
build_joffre_urls(day) ==
  << [route |-> "facility", facility |-> "joffre", param |-> "none", date |-> "none"],
     [route |-> "dayuse/registration", facility |-> "joffre", param |-> "date", date |-> day],
     [route |-> "dayuse/registration", facility |-> "joffre", param |-> "arrivalDate", date |-> day],
     [route |-> "dayuse/registration", facility |-> "none", param |-> "date", date |-> day],
     [route |-> "search", facility |-> "joffre", param |-> "date", date |-> day],
     [route |-> "booking", facility |-> "joffre", param |-> "date", date |-> day],
     [route |-> "facility/joffre-lakes", facility |-> "none", param |-> "date", date |-> day] >>

\* the park being checked, the unit being checked and its candidate URLs
park_key ==
  IF monitor = "multi"
  THEN IF p \in DOMAIN sorted_parks THEN sorted_parks[p].key ELSE "none"
  ELSE "joffre"

unit == << park_key, days[d] >>

urls_to_check ==
  IF monitor = "multi" THEN build_park_urls(sorted_parks[p], days[d])
  ELSE build_joffre_urls(days[d])

\* the units a complete run checks
AllUnits ==
  IF monitor = "multi"
  THEN { << parks[k].key, days[j] >> : k \in DOMAIN parks, j \in DOMAIN days }
  ELSE { << "joffre", days[j] >> : j \in DOMAIN days }

\* what the dict being built says of a unit: "none" while it is not recorded
Recorded(dict, partial, u) ==
  IF monitor = "multi"
  THEN IF u[1] \in DOMAIN dict /\ u[2] \in DOMAIN dict[u[1]]
       THEN IF dict[u[1]][u[2]] THEN "available" ELSE "not available"
       ELSE IF u[1] = park_key /\ u[2] \in DOMAIN partial
            THEN IF partial[u[2]] THEN "available" ELSE "not available"
            ELSE "none"
  ELSE IF u[2] \in DOMAIN dict
       THEN IF dict[u[2]] THEN "available" ELSE "not available"
       ELSE "none"

\* what a returned RunResult says of a unit
InResult(dict, u) ==
  IF monitor = "multi"
  THEN IF u[1] \in DOMAIN dict /\ u[2] \in DOMAIN dict[u[1]]
       THEN IF dict[u[1]][u[2]] THEN "available" ELSE "not available"
       ELSE "none"
  ELSE IF u[2] \in DOMAIN dict
       THEN IF dict[u[2]] THEN "available" ELSE "not available"
       ELSE "none"

-----------------------------------------------------------------------------
(* The run: main, the constructor, check_all_*, the summary, the handlers *)

NoParse ==
  [ret |-> FALSE, branch |-> "NONE", has_target_date |-> FALSE,
   found_availability |-> <<>>, found_unavailable |-> <<>>,
   interactive |-> FALSE, message |-> NoMsg]

NoPage == [wellformed |-> TRUE, elements |-> <<>>]

\* no send_telegram call has returned since the caller last went on
NoSend == [outcome |-> "none", value |-> FALSE]

MsgKinds == { "startup", "availability", "summary", "error" }

Count(dict, k) == IF k \in DOMAIN dict THEN dict[k] ELSE 0

Init ==
  /\ monitor \in { "multi", "single" }
  /\ env \in [token : BOOLEAN, chat : BOOLEAN]
  /\ pc = "main"
  /\ ret_pc = "none"
  /\ sorted_parks = <<>>
  /\ p = 1 /\ d = 1 /\ i = 1
  /\ availability_found = FALSE
  /\ response = NoPage
  /\ parsed = NoParse
  /\ park_results = EmptyDict
  /\ results = EmptyDict
  /\ returned = EmptyDict
  /\ pending = NoMsg
  /\ sent = [k \in MsgKinds |-> 0]
  /\ current_hour = 0
  /\ error_hour = 0
  /\ all_failed = TRUE
  /\ last_fetch = "none"
  /\ last_send = NoSend
  /\ network = {}
  /\ now = RunDate
  /\ twin = NoPage
  /\ twin_parsed = NoParse
  /\ requested = <<>>
  /\ fetches = 0
  /\ settled = {}
  /\ notified = EmptyDict
  /\ paced = TRUE
  /\ raised = {}
  /\ exit_status = {}

\* a variant of main without its handler: the ValueError of the constructor
\* leaves main and the interpreter ends with status 1
ConstructEscapes ==
  /\ pc = "main"
  /\ UNCHANGED << now, twin, twin_parsed >>
  /\ UNCHANGED << requested, fetches >>
  /\ IF ~env.token \/ ~env.chat
     THEN /\ pc' = "exit"
          /\ exit_status' = { 1 }
     ELSE /\ pc' = "getMe"
          /\ UNCHANGED exit_status
  /\ UNCHANGED << monitor, env, ret_pc, sorted_parks, p, d, i, availability_found,
                  response, parsed, park_results, results, returned, pending, sent,
                  current_hour, error_hour, all_failed, last_fetch, last_send,
                  network, settled, notified, paced, raised >>

\* a variant whose constructor does not look at the credentials
ConstructUnchecked ==
  /\ pc = "main"
  /\ UNCHANGED << now, twin, twin_parsed >>
  /\ UNCHANGED << requested, fetches >>
  /\ pc' = "getMe"
  /\ UNCHANGED << monitor, env, ret_pc, sorted_parks, p, d, i, availability_found,
                  response, parsed, park_results, results, returned, pending, sent,
                  current_hour, error_hour, all_failed, last_fetch, last_send,
                  network, settled, notified, paced, raised, exit_status >>

\* main calls the constructor: without both credentials it raises ValueError,
\* which main's handler prints; main then returns
Construct ==
  /\ pc = "main"
  /\ UNCHANGED << now, twin, twin_parsed >>
  /\ UNCHANGED << requested, fetches >>
  /\ UNCHANGED network
  /\ UNCHANGED last_send
  /\ UNCHANGED last_fetch
  /\ IF ~env.token \/ ~env.chat
     THEN /\ raised' = raised \cup { "main" }
          /\ pc' = "exit"
          /\ exit_status' = { 0 }
     ELSE /\ pc' = "getMe"
          /\ UNCHANGED << raised, exit_status >>
  /\ UNCHANGED << monitor, env, ret_pc, sorted_parks, p, d, i, availability_found,
                  response, parsed, park_results, results, returned, pending, sent,
                  current_hour, error_hour, all_failed, settled, notified, paced >>

\* test_telegram_connection: getMe answered 200, the startup message is sent
TestTelegramOk ==
  /\ pc = "getMe"
  /\ UNCHANGED << now, twin, twin_parsed >>
  /\ UNCHANGED << requested, fetches >>
  /\ network' = network \cup { "getMe" }
  /\ UNCHANGED last_send
  /\ UNCHANGED last_fetch
  /\ pending' = [kind |-> "startup"]
  /\ pc' = "send"
  /\ ret_pc' = "run"
  /\ UNCHANGED << monitor, env, sorted_parks, p, d, i, availability_found, response,
                  parsed, park_results, results, returned, sent, current_hour,
                  error_hour, all_failed, settled, notified, paced, raised,
                  exit_status >>

\* test_telegram_connection: getMe answered another status or raised; logged
TestTelegramFail ==
  /\ pc = "getMe"
  /\ UNCHANGED << now, twin, twin_parsed >>
  /\ UNCHANGED << requested, fetches >>
  /\ network' = network \cup { "getMe" }
  /\ UNCHANGED last_send
  /\ UNCHANGED last_fetch
  /\ pc' = "run"
  /\ UNCHANGED << monitor, env, ret_pc, sorted_parks, p, d, i, availability_found,
                  response, parsed, park_results, results, returned, pending, sent,
                  current_hour, error_hour, all_failed, settled, notified, paced,
                  raised, exit_status >>

\* what send_telegram returns: True on status 200, False on any other status
\* and from its except clause
send_value(outcome) == outcome = "ok"

\* a variant without the except clause: the exception of requests.post leaves
\* send_telegram and travels up to the handler of run_comprehensive_check
send_telegram_raising(outcome) ==
  /\ sent' = [sent EXCEPT ![pending.kind] = @ + 1]
  /\ notified' = IF pending.kind = "availability"
                 THEN Put(notified, << pending.park, pending.day >>,
                          Count(notified, << pending.park, pending.day >>) + 1)
                 ELSE notified
  /\ pending' = NoMsg
  /\ last_send' = [outcome |-> outcome, value |-> send_value(outcome)]
  /\ network' = network \cup { "sendMessage" }
  /\ IF outcome = "exception"
     THEN /\ raised' = raised \cup { "send" }
          /\ pc' = "handler"
     ELSE /\ raised' = raised
          /\ pc' = ret_pc
  /\ ret_pc' = "none"

\* send_telegram: the post is made; 200 returns True, any other status or an
\* exception returns False; nothing is raised to the caller
send_telegram(outcome) ==
  /\ sent' = [sent EXCEPT ![pending.kind] = @ + 1]
  /\ last_send' = [outcome |-> outcome, value |-> send_value(outcome)]
  /\ network' = network \cup { "sendMessage" }
  /\ raised' = raised
  /\ notified' = IF pending.kind = "availability"
                 THEN Put(notified, << pending.park, pending.day >>,
                          Count(notified, << pending.park, pending.day >>) + 1)
                 ELSE notified
  /\ pending' = NoMsg
  /\ pc' = ret_pc
  /\ ret_pc' = "none"

SendTelegram ==
  /\ pc = "send"
  /\ UNCHANGED << now, twin, twin_parsed >>
  /\ UNCHANGED << requested, fetches >>
  /\ UNCHANGED last_fetch
  /\ \E outcome \in { "ok", "http_error", "exception" } : send_telegram(outcome)
  /\ UNCHANGED << monitor, env, sorted_parks, p, d, i, availability_found, response,
                  parsed, park_results, results, returned, current_hour, error_hour,
                  all_failed, settled, paced, exit_status >>

\* run_comprehensive_check enters check_all_*: the dict is empty, the parks are
\* sorted by priority, the first date of the first park is next
RunStart ==
  /\ pc = "run"
  /\ UNCHANGED << now, twin, twin_parsed >>
  /\ UNCHANGED << requested, fetches >>
  /\ UNCHANGED network
  /\ last_send' = NoSend
  /\ UNCHANGED last_fetch
  /\ results' = EmptyDict
  /\ park_results' = EmptyDict
  /\ sorted_parks' = IF monitor = "multi" THEN sorted(parks) ELSE <<>>
  /\ p' = 1 /\ d' = 1
  /\ pc' = "unit"
  /\ UNCHANGED << monitor, env, ret_pc, i, availability_found, response, parsed,
                  returned, pending, sent, current_hour, error_hour, all_failed,
                  settled, notified, paced, raised, exit_status >>

\* check_*_date_availability is entered for the current unit
UnitStart ==
  /\ pc = "unit"
  /\ UNCHANGED << now, twin, twin_parsed >>
  /\ requested' = <<>>
  /\ UNCHANGED fetches
  /\ UNCHANGED network
  /\ UNCHANGED last_send
  /\ last_fetch' = "none"
  /\ availability_found' = FALSE
  /\ i' = 1
  /\ all_failed' = TRUE
  /\ pc' = "fetch"
  /\ UNCHANGED << monitor, env, ret_pc, sorted_parks, p, d, response, parsed,
                  park_results, results, returned, pending, sent, current_hour,
                  error_hour, settled, notified, paced, raised, exit_status >>

\* where the for loop over the candidate URLs goes after URL number i
next_url ==
  /\ i' = i + 1
  /\ pc' = IF i < Len(urls_to_check) THEN "fetch" ELSE "unit_end"

\* session.get is called for a URL
session_get(url) ==
  /\ requested' = Append(requested, url)
  /\ fetches' = fetches + 1

\* a variant without the per-URL try: the exception leaves the loop and is
\* caught by the handler of check_all_*, which returns {}
FetchExceptionEscapes ==
  /\ pc = "fetch"
  /\ UNCHANGED << now, twin, twin_parsed >>
  /\ requested' = <<>>
  /\ fetches' = 0
  /\ network' = network \cup { "fetch" }
  /\ last_send' = NoSend
  /\ last_fetch' = "exception"
  /\ paced' = FALSE
  /\ raised' = raised \cup { "check_all" }
  /\ returned' = EmptyDict
  /\ results' = EmptyDict
  /\ park_results' = EmptyDict
  /\ sorted_parks' = <<>>
  /\ p' = 1 /\ d' = 1 /\ i' = 1
  /\ all_failed' = TRUE
  /\ pc' = "after_check"
  /\ UNCHANGED << monitor, env, ret_pc, availability_found, response, parsed,
                  pending, sent, current_hour, error_hour, settled, notified,
                  exit_status >>

\* a variant that asks again for the URL whose request raised
FetchExceptionRetry ==
  /\ pc = "fetch"
  /\ UNCHANGED << now, twin, twin_parsed >>
  /\ session_get(urls_to_check[i])
  /\ network' = network \cup { "fetch" }
  /\ UNCHANGED last_send
  /\ last_fetch' = "exception"
  /\ paced' = FALSE
  /\ UNCHANGED << pc, i >>
  /\ UNCHANGED << monitor, env, ret_pc, sorted_parks, p, d, availability_found,
                  response, parsed, park_results, results, returned, pending, sent,
                  current_hour, error_hour, all_failed, settled, notified, raised,
                  exit_status >>

\* session.get raises (timeout, connection failure): logged, `continue`
FetchException ==
  /\ pc = "fetch"
  /\ UNCHANGED << now, twin, twin_parsed >>
  /\ session_get(urls_to_check[i])
  /\ network' = network \cup { "fetch" }
  /\ UNCHANGED last_send
  /\ last_fetch' = "exception"
  /\ paced' = FALSE
  /\ next_url
  /\ UNCHANGED << monitor, env, ret_pc, sorted_parks, p, d, availability_found,
                  response, parsed, park_results, results, returned, pending, sent,
                  current_hour, error_hour, all_failed, settled, notified, raised,
                  exit_status >>

\* session.get returns a status other than 200: logged, then the pacing sleep
FetchNon200 ==
  /\ pc = "fetch"
  /\ UNCHANGED << now, twin, twin_parsed >>
  /\ session_get(urls_to_check[i])
  /\ network' = network \cup { "fetch" }
  /\ UNCHANGED last_send
  /\ last_fetch' = "http_error"
  /\ paced' = FALSE
  /\ pc' = "sleep"
  /\ UNCHANGED << monitor, env, ret_pc, sorted_parks, p, d, i, availability_found,
                  response, parsed, park_results, results, returned, pending, sent,
                  current_hour, error_hour, all_failed, settled, notified, raised,
                  exit_status >>

\* session.get returns 200 with some page
FetchOk ==
  /\ pc = "fetch"
  /\ UNCHANGED << now, twin, twin_parsed >>
  /\ session_get(urls_to_check[i])
  /\ network' = network \cup { "fetch" }
  /\ UNCHANGED last_send
  /\ last_fetch' = "ok"
  /\ \E page \in RunDocuments(MaxRunNodes) : response' = page
  /\ all_failed' = FALSE
  /\ paced' = FALSE
  /\ pc' = "parse"
  /\ UNCHANGED << monitor, env, ret_pc, sorted_parks, p, d, i, availability_found,
                  parsed, park_results, results, returned, pending, sent,
                  current_hour, error_hour, settled, notified, raised, exit_status >>

\* the classifier call of the loop body
parse(html_content) ==
  IF monitor = "multi"
  THEN parse_for_park_availability(html_content, urls_to_check[i],
                                   get_target_dates(now)[days[d]], sorted_parks[p],
                                   day_labels[days[d]])
  ELSE parse_for_joffre_availability(html_content, urls_to_check[i],
                                     get_target_dates(now)[days[d]], day_labels[days[d]])

parse_page == parse(response)

\* a variant of the classifier without its except clause: the error of a
\* malformed page leaves it and is caught by the per-URL handler, which goes
\* to the next URL
ParseRaising ==
  /\ pc = "parse"
  /\ UNCHANGED << now, twin, twin_parsed, network, last_send, last_fetch >>
  /\ UNCHANGED << requested, fetches >>
  /\ IF ~response.wellformed
     THEN /\ raised' = raised \cup { "url" }
          /\ next_url
          /\ UNCHANGED << parsed, pending, settled, ret_pc >>
     ELSE /\ parsed' = parse_page
          /\ raised' = raised
          /\ i' = i
          /\ IF parse_page.ret
             THEN /\ pending' = parse_page.message
                  /\ settled' = settled \cup { unit }
                  /\ pc' = "send"
                  /\ ret_pc' = "found"
             ELSE /\ pc' = "sleep"
                  /\ UNCHANGED << pending, settled, ret_pc >>
  /\ UNCHANGED << monitor, env, sorted_parks, p, d, availability_found, response,
                  park_results, results, returned, sent, current_hour, error_hour,
                  all_failed, notified, paced, exit_status >>

\* the page is classified; on AVAILABLE the classifier hands its message to
\* send_telegram before it returns True
Parse ==
  /\ pc = "parse"
  /\ UNCHANGED << now, twin, twin_parsed >>
  /\ UNCHANGED << requested, fetches >>
  /\ UNCHANGED network
  /\ UNCHANGED last_send
  /\ UNCHANGED last_fetch
  /\ parsed' = parse_page
  /\ IF parse_page.ret
     THEN /\ pending' = parse_page.message
          /\ settled' = settled \cup { unit }
          /\ pc' = "send"
          /\ ret_pc' = "found"
     ELSE /\ pc' = "sleep"
          /\ UNCHANGED << pending, settled, ret_pc >>
  /\ UNCHANGED << monitor, env, sorted_parks, p, d, i, availability_found, response,
                  park_results, results, returned, sent, current_hour, error_hour,
                  all_failed, notified, paced, raised, exit_status >>

\* a variant without the break: the loop goes on to the pacing sleep
FoundNoBreak ==
  /\ pc = "found"
  /\ UNCHANGED << now, twin, twin_parsed >>
  /\ UNCHANGED << requested, fetches >>
  /\ UNCHANGED network
  /\ UNCHANGED last_send
  /\ last_fetch' = "none"
  /\ availability_found' = TRUE
  /\ pc' = "sleep"
  /\ UNCHANGED << monitor, env, ret_pc, sorted_parks, p, d, i, response, parsed,
                  park_results, results, returned, pending, sent, current_hour,
                  error_hour, all_failed, settled, notified, paced, raised,
                  exit_status >>

\* the classifier returned True: availability_found = True; break
Found ==
  /\ pc = "found"
  /\ UNCHANGED << now, twin, twin_parsed >>
  /\ UNCHANGED << requested, fetches >>
  /\ UNCHANGED network
  /\ UNCHANGED last_send
  /\ last_fetch' = "none"
  /\ availability_found' = TRUE
  /\ pc' = "unit_end"
  /\ response' = NoPage
  /\ parsed' = NoParse
  /\ UNCHANGED << monitor, env, ret_pc, sorted_parks, p, d, i, park_results, results,
                  returned, pending, sent, current_hour, error_hour, all_failed,
                  settled, notified, paced, raised, exit_status >>

\* time.sleep at the end of the loop body, then the next candidate URL
Sleep ==
  /\ pc = "sleep"
  /\ UNCHANGED << now, twin, twin_parsed >>
  /\ UNCHANGED << requested, fetches >>
  /\ UNCHANGED network
  /\ UNCHANGED last_send
  /\ last_fetch' = "none"
  /\ paced' = TRUE
  /\ next_url
  /\ response' = NoPage
  /\ parsed' = NoParse
  /\ UNCHANGED << monitor, env, ret_pc, sorted_parks, p, d, availability_found,
                  park_results, results, returned, pending, sent, current_hour,
                  error_hour, all_failed, settled, notified, raised, exit_status >>

\* what the caller stores for the unit when check_*_date_availability returns
record_unit(found) ==
  IF monitor = "multi"
  THEN /\ park_results' = Put(park_results, days[d], found)
       /\ UNCHANGED results
  ELSE /\ results' = Put(results, days[d], found)
       /\ UNCHANGED park_results

\* check_*_date_availability returns availability_found and the caller records it
UnitEnd ==
  /\ pc = "unit_end"
  /\ UNCHANGED << now, twin, twin_parsed >>
  /\ requested' = <<>>
  /\ UNCHANGED fetches
  /\ UNCHANGED network
  /\ UNCHANGED last_send
  /\ last_fetch' = "none"
  /\ record_unit(availability_found)
  /\ pc' = "sleep_date"
  /\ i' = 1
  /\ availability_found' = FALSE
  /\ UNCHANGED << monitor, env, ret_pc, sorted_parks, p, d, response, parsed,
                  returned, pending, sent, current_hour, error_hour, all_failed,
                  settled, notified, paced, raised, exit_status >>

\* check_all_* ends, returning `value`: its locals are gone
leave_check_all(value) ==
  /\ returned' = value
  /\ requested' = <<>>
  /\ fetches' = 0
  /\ results' = EmptyDict
  /\ park_results' = EmptyDict
  /\ sorted_parks' = <<>>
  /\ p' = 1 /\ d' = 1
  /\ all_failed' = TRUE
  /\ pc' = "after_check"

\* the pause after a date; after the last date the multi-park monitor stores the
\* park's dates and the single-park monitor returns its results
SleepDate ==
  /\ pc = "sleep_date"
  /\ UNCHANGED << now, twin, twin_parsed >>
  /\ UNCHANGED network
  /\ last_send' = NoSend
  /\ UNCHANGED last_fetch
  /\ paced' = TRUE
  /\ IF d < Len(days)
     THEN /\ d' = d + 1
          /\ pc' = "unit"
          /\ UNCHANGED << results, returned, park_results, sorted_parks, p,
                          all_failed, requested, fetches >>
     ELSE IF monitor = "multi"
          THEN /\ results' = Put(results, park_key, park_results)
               /\ pc' = "sleep_park"
               /\ UNCHANGED << d, returned, park_results, sorted_parks, p,
                               all_failed, requested, fetches >>
          ELSE leave_check_all(results)
  /\ UNCHANGED << monitor, env, ret_pc, i, availability_found, response, parsed,
                  pending, sent, current_hour, error_hour, settled, notified,
                  raised, exit_status >>

\* the pause after a park; after the last park check_all_parks_and_dates returns
SleepPark ==
  /\ pc = "sleep_park"
  /\ UNCHANGED << now, twin, twin_parsed >>
  /\ UNCHANGED network
  /\ UNCHANGED last_send
  /\ UNCHANGED last_fetch
  /\ paced' = TRUE
  /\ IF p < Len(sorted_parks)
     THEN /\ p' = p + 1
          /\ d' = 1
          /\ park_results' = EmptyDict
          /\ pc' = "unit"
          /\ UNCHANGED << returned, results, sorted_parks, all_failed, requested,
                          fetches >>
     ELSE leave_check_all(results)
  /\ UNCHANGED << monitor, env, ret_pc, i, availability_found, response, parsed,
                  pending, sent, current_hour, error_hour, settled, notified,
                  raised, exit_status >>

\* the hours datetime.now(self.timezone).hour can give
Hours == 0..23

\* the places of check_all_* that the per-URL try does not cover
OutsideUrlTry == { "unit", "sleep", "unit_end", "sleep_date", "sleep_park" }

\* what the handler of check_all_* returns
check_all_handler(gathered) == EmptyDict

\* an exception there reaches the handler of check_all_*, which logs it and
\* returns; error_hour notes the local hour at which that happens
CheckRaise ==
  /\ pc \in OutsideUrlTry
  /\ UNCHANGED << now, twin, twin_parsed >>
  /\ UNCHANGED network
  /\ last_send' = NoSend
  /\ last_fetch' = "none"
  /\ raised' = raised \cup { "check_all" }
  /\ leave_check_all(check_all_handler(results))
  /\ error_hour' \in Hours
  /\ i' = 1
  /\ availability_found' = FALSE
  /\ response' = NoPage
  /\ parsed' = NoParse
  /\ UNCHANGED << monitor, env, ret_pc, pending, sent, current_hour, settled,
                  notified, paced, exit_status >>

\* is some unit of the results available
any_available(dict) ==
  IF monitor = "multi"
  THEN \E k \in DOMAIN dict : \E dk \in DOMAIN dict[k] : dict[k][dk]
  ELSE \E dk \in DOMAIN dict : dict[dk]

\* the hours in which a summary may be sent
summary_hours == IF monitor = "multi" THEN { 7, 14, 21 } ELSE { 7, 12, 19 }

\* a variant that does not look at the results
summary_due_whatever_found(dict, hour) ==
  /\ 6 <= hour /\ hour <= 23
  /\ hour \in summary_hours

\* send_comprehensive_summary / send_summary_notification: is the summary sent
summary_due(dict, hour) ==
  /\ 6 <= hour /\ hour <= 23
  /\ ~any_available(dict)
  /\ hour \in summary_hours

\* the error handler of run_comprehensive_check: is the error reported
error_reported(hour) == 6 <= hour /\ hour <= 23

\* run_comprehensive_check after check_all_* returned: `if results:`
AfterCheck ==
  /\ pc = "after_check"
  /\ UNCHANGED << now, twin, twin_parsed >>
  /\ UNCHANGED << requested, fetches >>
  /\ UNCHANGED network
  /\ UNCHANGED last_send
  /\ UNCHANGED last_fetch
  /\ pc' = IF DOMAIN returned # {} THEN "summary" ELSE "finish"
  /\ UNCHANGED << monitor, env, ret_pc, sorted_parks, p, d, i, availability_found,
                  response, parsed, park_results, results, returned, pending, sent,
                  current_hour, error_hour, all_failed, settled, notified, paced,
                  raised, exit_status >>

\* the summary function reads the hour and sends the summary or returns
Summary ==
  /\ pc = "summary"
  /\ UNCHANGED << now, twin, twin_parsed >>
  /\ UNCHANGED << requested, fetches >>
  /\ UNCHANGED network
  /\ UNCHANGED last_send
  /\ UNCHANGED last_fetch
  /\ \E hour \in Hours :
       /\ current_hour' = hour
       /\ IF summary_due(returned, hour)
          THEN /\ pending' = [kind |-> "summary"]
               /\ pc' = "send"
               /\ ret_pc' = "finish"
          ELSE /\ pc' = "finish"
               /\ UNCHANGED << pending, ret_pc >>
  /\ UNCHANGED << monitor, env, sorted_parks, p, d, i, availability_found, response,
                  parsed, park_results, results, returned, sent, error_hour,
                  all_failed, settled, notified, paced, raised, exit_status >>

\* the places of run_comprehensive_check's try block outside check_all_*
OutsideCheckAll == { "after_check", "summary", "finish" }

\* an exception there reaches the handler of run_comprehensive_check
RunRaise ==
  /\ pc \in OutsideCheckAll
  /\ UNCHANGED << now, twin, twin_parsed >>
  /\ UNCHANGED << requested, fetches >>
  /\ UNCHANGED network
  /\ last_send' = NoSend
  /\ UNCHANGED last_fetch
  /\ raised' = raised \cup { "run" }
  /\ pc' = "handler"
  /\ UNCHANGED << monitor, env, ret_pc, sorted_parks, p, d, i, availability_found,
                  response, parsed, park_results, results, returned, pending, sent,
                  current_hour, error_hour, all_failed, settled, notified, paced,
                  exit_status >>

\* the handler logs, reads the hour and reports the error in the active hours
ErrorHandler ==
  /\ pc = "handler"
  /\ UNCHANGED << now, twin, twin_parsed >>
  /\ UNCHANGED << requested, fetches >>
  /\ UNCHANGED network
  /\ UNCHANGED last_send
  /\ UNCHANGED last_fetch
  /\ \E hour \in Hours :
       /\ error_hour' = hour
       /\ IF error_reported(hour)
          THEN /\ pending' = [kind |-> "error"]
               /\ pc' = "send"
               /\ ret_pc' = "completed"
          ELSE /\ pc' = "completed"
               /\ UNCHANGED << pending, ret_pc >>
  /\ UNCHANGED << monitor, env, sorted_parks, p, d, i, availability_found, response,
                  parsed, park_results, results, returned, sent, current_hour,
                  all_failed, settled, notified, paced, raised, exit_status >>

\* the runtime is logged at the end of the try block
Finish ==
  /\ pc = "finish"
  /\ UNCHANGED << now, twin, twin_parsed >>
  /\ UNCHANGED << requested, fetches >>
  /\ UNCHANGED network
  /\ last_send' = NoSend
  /\ UNCHANGED last_fetch
  /\ pc' = "completed"
  /\ UNCHANGED << monitor, env, ret_pc, sorted_parks, p, d, i, availability_found,
                  response, parsed, park_results, results, returned, pending, sent,
                  current_hour, error_hour, all_failed, settled, notified, paced,
                  raised, exit_status >>

\* run_comprehensive_check returns and main ends
Completed ==
  /\ pc = "completed"
  /\ UNCHANGED << now, twin, twin_parsed >>
  /\ UNCHANGED << requested, fetches >>
  /\ UNCHANGED network
  /\ last_send' = NoSend
  /\ UNCHANGED last_fetch
  /\ pc' = "exit"
  /\ exit_status' = { 0 }
  /\ UNCHANGED << monitor, env, ret_pc, sorted_parks, p, d, i, availability_found,
                  response, parsed, park_results, results, returned, pending, sent,
                  current_hour, error_hour, all_failed, settled, notified, paced,
                  raised >>

Next ==
  \/ Construct
  \/ TestTelegramOk
  \/ TestTelegramFail
  \/ SendTelegram
  \/ RunStart
  \/ UnitStart
  \/ FetchException
  \/ FetchNon200
  \/ FetchOk
  \/ Parse
  \/ Found
  \/ Sleep
  \/ UnitEnd
  \/ SleepDate
  \/ SleepPark
  \/ CheckRaise
  \/ AfterCheck
  \/ Summary
  \/ RunRaise
  \/ ErrorHandler
  \/ Finish
  \/ Completed

Spec == Init /\ [][Next]_vars

-----------------------------------------------------------------------------
(* The classifier alone: every document of up to MaxNodes elements, for    *)
(* every park and date, is handed to the classifier call of the loop body. *)

ClassifyInit ==
  /\ monitor \in { "multi", "single" }
  /\ env = [token |-> TRUE, chat |-> TRUE]
  /\ pc = "parse"
  /\ ret_pc = "none"
  /\ sorted_parks = IF monitor = "multi" THEN sorted(parks) ELSE <<>>
  /\ p \in IF monitor = "multi" THEN DOMAIN parks ELSE { 1 }
  /\ d \in DOMAIN days
  /\ i = 1
  /\ availability_found = FALSE
  /\ response \in Documents(MaxNodes)
  /\ parsed = NoParse
  /\ park_results = EmptyDict
  /\ results = EmptyDict
  /\ returned = EmptyDict
  /\ pending = NoMsg
  /\ sent = [k \in MsgKinds |-> 0]
  /\ current_hour = 0
  /\ error_hour = 0
  /\ all_failed = FALSE
  /\ last_fetch = "ok"
  /\ last_send = NoSend
  /\ network = {}
  /\ now = RunDate
  /\ twin = NoPage
  /\ twin_parsed = NoParse
  /\ requested = << urls_to_check[1] >>
  /\ fetches = 1
  /\ settled = {}
  /\ notified = EmptyDict
  /\ paced = FALSE
  /\ raised = {}
  /\ exit_status = {}

ClassifyNext == Parse \/ SendTelegram

-----------------------------------------------------------------------------
(* Two calls of the classifier, for the same park and target date, on two  *)
(* pages: the page in hand and a second one.                               *)

PairInit ==
  /\ monitor \in { "multi", "single" }
  /\ env = [token |-> TRUE, chat |-> TRUE]
  /\ pc = "parse"
  /\ ret_pc = "none"
  /\ sorted_parks = IF monitor = "multi" THEN sorted(parks) ELSE <<>>
  /\ p = 1
  /\ d \in DOMAIN days
  /\ i = 1
  /\ availability_found = FALSE
  /\ response \in PairDocuments(MaxPairNodes)
  /\ parsed = NoParse
  /\ park_results = EmptyDict
  /\ results = EmptyDict
  /\ returned = EmptyDict
  /\ pending = NoMsg
  /\ sent = [k \in MsgKinds |-> 0]
  /\ current_hour = 0
  /\ error_hour = 0
  /\ all_failed = FALSE
  /\ last_fetch = "ok"
  /\ last_send = NoSend
  /\ network = {}
  /\ now \in Dates
  /\ twin \in PairDocuments(MaxPairNodes)
  /\ twin_parsed = NoParse
  /\ requested = << urls_to_check[1] >>
  /\ fetches = 1
  /\ settled = {}
  /\ notified = EmptyDict
  /\ paced = FALSE
  /\ raised = {}
  /\ exit_status = {}

\* the classifier is called for the second page once it has returned for the
\* first one; on AVAILABLE it hands its message to send_telegram before it
\* returns True, as it does for the first page, and control comes back to
\* where the second call was made
ParseTwin ==
  /\ pc \in { "sleep", "found" }
  /\ twin_parsed = NoParse
  /\ twin_parsed' = parse(twin)
  /\ IF parse(twin).ret
     THEN /\ pending' = parse(twin).message
          /\ settled' = settled \cup { unit }
          /\ pc' = "send"
          /\ ret_pc' = pc
     ELSE UNCHANGED << pending, settled, pc, ret_pc >>
  /\ UNCHANGED << monitor, env, sorted_parks, p, d, i, availability_found,
                  response, parsed, park_results, results, returned, sent,
                  current_hour, error_hour, all_failed, last_fetch, last_send,
                  network, now, twin, requested, fetches, notified, paced,
                  raised, exit_status >>

PairNext == Parse \/ SendTelegram \/ ParseTwin

SpecPair == PairInit /\ [][PairNext]_vars

SpecClassify == ClassifyInit /\ [][ClassifyNext]_vars

-----------------------------------------------------------------------------
(* What the claims say about a page, read off the page itself *)

\* the lowercase text of the page in hand
PageText == Lower(get_text(response.elements))

\* the keywords of the park the page is classified for
TargetKeywords == IF monitor = "multi" THEN sorted_parks[p].keywords ELSE joffre_keywords

PageHasKeyword ==
  \E k \in DOMAIN TargetKeywords : Contains(PageText, TargetKeywords[k])

PageHasAvailabilityPhrase ==
  \E k \in DOMAIN availability_indicators : Contains(PageText, availability_indicators[k])

PageHasUnavailabilityPhrase ==
  \E k \in DOMAIN unavailable_indicators : Contains(PageText, unavailable_indicators[k])

\* the structural signal as the claims word it: a button or link whose
\* visible text holds a booking word, whatever else the element holds beside
\* the text, or an input or select whose name holds a date word
PageHasBookingControl ==
  \E k \in DOMAIN response.elements :
    LET n == response.elements[k]
    IN  \/ /\ n.tag \in { "button", "a" }
           /\ \E w \in DOMAIN booking_words : Contains(Lower(n.text), booking_words[w])
        \/ /\ n.tag \in { "input", "select" }
           /\ \E w \in DOMAIN date_words : Contains(Lower(n.name), date_words[w])

\* the classifier has returned for the page in hand
Classified == pc \in { "send", "found", "sleep" } /\ parsed.branch # "NONE"

\* no availability notification was made or is being made for the page
NothingNotified ==
  /\ pending.kind # "availability"
  /\ sent["availability"] = 0
  /\ pc = "sleep"

\* C1: a page with a park keyword and an unavailability phrase is never
\* classified AVAILABLE, whatever availability phrases or booking controls it
\* also has: the classifier returns False and notifies nothing.
C1_ConservativeBias ==
  (Classified /\ response.wellformed /\ PageHasKeyword /\ PageHasUnavailabilityPhrase)
    => (~parsed.ret /\ parsed.branch # "AVAILABLE" /\ NothingNotified)

C1_Witness ==
  /\ Classified /\ response.wellformed
  /\ PageHasKeyword /\ PageHasUnavailabilityPhrase
  /\ PageHasAvailabilityPhrase /\ PageHasBookingControl
  /\ ~parsed.ret

\* C2: a page whose lowercase text holds none of the target park's keywords is
\* NOT_THIS_PARK: not available, nothing notified, whatever else it holds.
C2_RelevanceGate ==
  (Classified /\ response.wellformed /\ ~PageHasKeyword)
    => (parsed.branch = "NOT_THIS_PARK" /\ ~parsed.ret /\ NothingNotified)

C2_Witness ==
  /\ Classified /\ response.wellformed
  /\ ~PageHasKeyword
  /\ PageHasAvailabilityPhrase /\ PageHasBookingControl /\ ~PageHasUnavailabilityPhrase
  /\ parsed.branch = "NOT_THIS_PARK"

\* C3: a page with a park keyword, an availability phrase and no
\* unavailability phrase is AVAILABLE (True is returned, the notification is
\* made), with or without a booking control.
C3_AvailablePhrase ==
  (Classified /\ response.wellformed /\ PageHasKeyword /\ PageHasAvailabilityPhrase
     /\ ~PageHasUnavailabilityPhrase)
    => /\ parsed.ret /\ parsed.branch = "AVAILABLE"
       /\ pc \in { "send", "found" }
       /\ (pending.kind = "availability" \/ sent["availability"] = 1)

C3_Witness ==
  /\ Classified /\ response.wellformed
  /\ PageHasKeyword /\ PageHasAvailabilityPhrase
  /\ ~PageHasUnavailabilityPhrase /\ ~PageHasBookingControl
  /\ parsed.ret /\ pc = "found"

\* C4: a page with a park keyword, an unavailability phrase and no
\* availability phrase takes the UNAVAILABLE branch; so does, in particular,
\* every such page without a booking control.
C4_Unavailable ==
  (Classified /\ response.wellformed /\ PageHasKeyword /\ PageHasUnavailabilityPhrase
     /\ ~PageHasAvailabilityPhrase)
    => (parsed.branch = "UNAVAILABLE" /\ ~parsed.ret)

C4_Witness ==
  /\ Classified /\ response.wellformed
  /\ PageHasKeyword /\ PageHasUnavailabilityPhrase
  /\ ~PageHasAvailabilityPhrase /\ ~PageHasBookingControl
  /\ parsed.branch = "UNAVAILABLE"

\* C5 (as claimed): a page with a park keyword and no phrase of either list
\* is AVAILABLE when it has a booking control (a button or link whose visible
\* text holds a booking word, or a date-named input or select) and UNCLEAR,
\* not UNAVAILABLE, when it has not.
C5_StructuralAlone ==
  (Classified /\ response.wellformed /\ PageHasKeyword /\ ~PageHasAvailabilityPhrase
     /\ ~PageHasUnavailabilityPhrase)
    => IF PageHasBookingControl
       THEN parsed.ret /\ parsed.branch = "AVAILABLE" /\ pc \in { "send", "found" }
       ELSE ~parsed.ret /\ parsed.branch = "UNCLEAR"

-----------------------------------------------------------------------------
(* What the claims say about a run *)

\* the latest request of the loop body raised or was answered another status
FetchFailed(outcome) == outcome \in { "exception", "http_error" }

\* C6: a request is issued only for a unit none of whose pages has been
\* classified AVAILABLE and whose result is not recorded yet; and when
\* check_all_* returns its results, every unit is in them, available exactly
\* when one of its pages was classified AVAILABLE.
C6_StopAtFirstAvailable ==
  /\ pc = "fetch" =>
       (unit \notin settled /\ Recorded(results, park_results, unit) = "none")
  /\ (pc = "after_check" /\ "check_all" \notin raised) =>
       \A u \in AllUnits :
         InResult(returned, u) = IF u \in settled THEN "available" ELSE "not available"

\* a request for the second date while the first date of the park is settled
C6_Witness ==
  /\ pc = "fetch"
  /\ d = 2
  /\ << park_key, days[1] >> \in settled
  /\ Recorded(results, park_results, << park_key, days[1] >>) = "available"

\* C7: a request that raises or is answered another status than 200 is not
\* classified, notifies nothing, raises nothing and leaves the unit and what
\* is recorded as they are; the loop goes to the next candidate URL of the
\* unit (after the sleep, for a status), or ends after the last one; a unit
\* all of whose requests failed is recorded not available; main ends with 0.
C7_FetchFailureContained ==
  [][ /\ (pc = "fetch" /\ FetchFailed(last_fetch')) =>
           /\ pc' # "parse"
           /\ parsed' = parsed /\ pending' = pending /\ sent' = sent
           /\ settled' = settled /\ raised' = raised
           /\ p' = p /\ d' = d /\ availability_found' = availability_found
           /\ results' = results /\ park_results' = park_results
           /\ IF last_fetch' = "exception"
              THEN /\ i' = i + 1
                   /\ pc' = IF i < Len(urls_to_check) THEN "fetch" ELSE "unit_end"
              ELSE /\ i' = i
                   /\ pc' = "sleep"
      /\ (pc = "sleep" /\ raised' = raised) =>
           /\ p' = p /\ d' = d /\ i' = i + 1
           /\ pc' = IF i < Len(urls_to_check) THEN "fetch" ELSE "unit_end"
      /\ (pc = "parse") => last_fetch = "ok"
      /\ (pc = "unit_end" /\ raised' = raised /\ all_failed) =>
           /\ pc' = "sleep_date"
           /\ Recorded(results', park_results', unit) = "not available"
      /\ (pc' = "exit") => exit_status' = { 0 }
    ]_vars

\* a unit recorded not available after every one of its requests failed
C7_Witness ==
  /\ pc = "sleep_date"
  /\ all_failed
  /\ Recorded(results, park_results, unit) = "not available"

\* C8: at most one summary is sent per run; one is sent only when no page was
\* classified AVAILABLE, no unit of the results is available and the hour read
\* is one of 7, 14, 21 (multi-park) or 7, 12, 19 (single-park).
C8_SummaryGating ==
  /\ sent["summary"] + (IF pending.kind = "summary" THEN 1 ELSE 0) <= 1
  /\ (sent["summary"] > 0 \/ pending.kind = "summary") =>
       /\ settled = {}
       /\ ~any_available(returned)
       /\ \A u \in AllUnits : InResult(returned, u) = "not available"
       /\ monitor = "multi" => current_hour \in { 7, 14, 21 }
       /\ monitor = "single" => current_hour \in { 7, 12, 19 }

\* a run that ended after its summary was sent
C8_Witness ==
  /\ pc = "exit"
  /\ sent["summary"] = 1
  /\ raised = {}

\* C9 (as claimed): when check_all_* ends, every unit whose result was recorded
\* is in the RunResult it hands to run_comprehensive_check, with that result.
C9_ResultsKept ==
  [][ (pc # "after_check" /\ pc' = "after_check") =>
        \A u \in AllUnits :
          Recorded(results, park_results, u) # "none" =>
            InResult(returned', u) = Recorded(results, park_results, u)
    ]_vars

\* C10 (as claimed): a run in which an exception was raised outside the per-URL
\* handling has made exactly one error notification if the hour at which it was
\* last caught was within 6..23 and none otherwise, and has ended with status 0.
C10_ErrorReported ==
  (pc = "exit" /\ (raised \cap { "check_all", "run" }) # {}) =>
    /\ sent["error"] = IF 6 <= error_hour /\ error_hour <= 23 THEN 1 ELSE 0
    /\ exit_status = { 0 }

\* C11: send_telegram raises nothing and goes back to its caller; a status
\* other than 200 or an exception of the post makes it return False; the step
\* leaves the classifier's result and what is recorded as they are; the unit
\* whose notification failed is still recorded available, and a check_all_*
\* that did not raise returns a result for every unit.
C11_BestEffortNotify ==
  [][ /\ (pc = "send") =>
           /\ raised' = raised
           /\ pc' = ret_pc
           /\ parsed' = parsed /\ settled' = settled
           /\ results' = results /\ park_results' = park_results
           /\ p' = p /\ d' = d /\ i' = i
           /\ last_send'.outcome \in { "http_error", "exception" } =>
                last_send'.value = FALSE
      /\ (pc = "found" /\ ~last_send.value) =>
           (availability_found' /\ pc' = "unit_end")
      /\ (pc = "unit_end" /\ ~last_send.value /\ unit \in settled /\ raised' = raised) =>
           Recorded(results', park_results', unit) = "available"
      /\ (pc' = "after_check" /\ pc # "after_check" /\ "check_all" \notin raised') =>
           \A u \in AllUnits : InResult(returned', u) # "none"
    ]_vars

\* a unit recorded available although the post of its notification raised
C11_Witness ==
  /\ pc = "sleep_date"
  /\ last_send.outcome = "exception"
  /\ ~last_send.value
  /\ Recorded(results, park_results, unit) = "available"

\* C12: when the bot token or the chat id is missing, the constructor raises
\* before any network request: no getMe, no sendMessage and no page fetch is
\* ever issued, no unit is checked, and the only thing the run does is end
\* with the exception caught in main.
C12_ConfigError ==
  (~env.token \/ ~env.chat) =>
    /\ network = {}
    /\ pc \in { "main", "exit" }
    /\ settled = {} /\ last_fetch = "none"
    /\ results = EmptyDict /\ park_results = EmptyDict /\ returned = EmptyDict
    /\ \A k \in MsgKinds : sent[k] = 0
    /\ pc = "exit" => raised = { "main" }

\* a run without the chat id that has ended
C12_Witness ==
  /\ pc = "exit"
  /\ env.token /\ ~env.chat
  /\ raised = { "main" }
  /\ network = {}

\* how far main has come: the place in main, and inside check_all_* the unit,
\* the candidate URL and the place in the loop body
Stage ==
  CASE pc = "main" -> 0
    [] pc = "getMe" -> 1
    [] pc = "send" /\ ret_pc = "run" -> 2
    [] pc = "run" -> 3
    [] pc \in { "unit", "fetch", "parse", "found", "sleep", "unit_end", "sleep_date",
                "sleep_park" } -> 4
    [] pc = "send" /\ ret_pc = "found" -> 4
    [] pc = "after_check" -> 5
    [] pc = "summary" -> 6
    [] pc = "send" /\ ret_pc = "finish" -> 7
    [] pc = "finish" -> 8
    [] pc = "handler" -> 9
    [] pc = "send" /\ ret_pc = "completed" -> 10
    [] pc = "completed" -> 11
    [] pc = "exit" -> 12

InUnit ==
  CASE pc = "unit" -> 0
    [] pc = "fetch" -> 5 * i - 4
    [] pc = "parse" -> 5 * i - 3
    [] pc = "send" -> 5 * i - 2
    [] pc = "found" -> 5 * i - 1
    [] pc = "sleep" -> 5 * i
    [] pc = "unit_end" -> 5 * Len(urls_to_check) + 1
    [] pc = "sleep_date" -> 5 * Len(urls_to_check) + 2
    [] pc = "sleep_park" -> 5 * Len(urls_to_check) + 3

Rank ==
  IF Stage = 4
  THEN 40000 + 100 * ((p - 1) * Len(days) + (d - 1)) + InUnit
  ELSE 10000 * Stage

\* C13: main always ends, and with status 0: every step takes main further
\* (no place is visited twice), a step is possible everywhere but at the end
\* of main (where the classifier is called, it returns a result), and at the
\* end the status is 0; whatever was raised on the way was caught by one of
\* the handlers.
C13_ExitZero ==
  /\ [](exit_status = IF pc = "exit" THEN { 0 } ELSE {})
  /\ [](pc \notin { "exit", "parse" } => ENABLED Next)
  /\ [](pc = "parse" =>
         parse_page.branch \in { "AVAILABLE", "UNAVAILABLE", "UNCLEAR", "NOT_THIS_PARK",
                                 "PARSE_ERROR" })
  /\ [](raised \subseteq { "main", "check_all", "run" })
  /\ [][Rank' > Rank]_vars

\* a run that ended after an exception in check_all_* and another one in
\* run_comprehensive_check
C13_Witness ==
  /\ pc = "exit"
  /\ exit_status = { 0 }
  /\ raised = { "check_all", "run" }

\* C14 (as claimed): a request is issued only when a pacing sleep has run
\* since the request before it, however that one ended.
C14_Paced == pc = "fetch" => paced

\* C15 (as claimed): a page with a park keyword, an unavailability phrase and
\* also an availability phrase or a booking control is UNCLEAR, not UNAVAILABLE.
C15_AmbiguousUnclear ==
  (Classified /\ response.wellformed /\ PageHasKeyword /\ PageHasUnavailabilityPhrase
     /\ (PageHasAvailabilityPhrase \/ PageHasBookingControl))
    => parsed.branch = "UNCLEAR"

\* the indicators of a list that occur in the page text, as a set
PhrasesIn(indicators) ==
  { indicators[k] : k \in { j \in DOMAIN indicators : Contains(PageText, indicators[j]) } }

\* the elements of a sequence, as a set
Range(s) == { s[k] : k \in DOMAIN s }

DayUsePasses == <<"d","a","y"," ","u","s","e"," ","p","a","s","s","e","s">>
DayUsePass == <<"d","a","y"," ","u","s","e"," ","p","a","s","s">>
SoldOut == <<"s","o","l","d"," ","o","u","t">>
NoAvailability == <<"n","o"," ","a","v","a","i","l","a","b","i","l","i","t","y">>

\* C16: a page with a park keyword, the text 'day use passes' and the phrase
\* 'sold out' or 'no availability' is UNAVAILABLE and notifies nothing,
\* although the availability phrase 'day use pass' is found in it as a
\* substring; what the classifier found is every phrase of each list that
\* occurs in the lowercase text.
C16_SubstringSoldOut ==
  (Classified /\ response.wellformed /\ PageHasKeyword
     /\ Contains(PageText, DayUsePasses)
     /\ (Contains(PageText, SoldOut) \/ Contains(PageText, NoAvailability)))
    => /\ parsed.branch = "UNAVAILABLE" /\ ~parsed.ret /\ NothingNotified
       /\ DayUsePass \in Range(parsed.found_availability)
       /\ Range(parsed.found_availability) = PhrasesIn(availability_indicators)
       /\ Range(parsed.found_unavailable) = PhrasesIn(unavailable_indicators)

\* the sold-out notice of a park page: one availability phrase and two
\* unavailability phrases are found
C16_Witness ==
  /\ Classified /\ response.wellformed /\ PageHasKeyword
  /\ Contains(PageText, DayUsePasses)
  /\ parsed.found_availability = << DayUsePass >>
  /\ parsed.found_unavailable = << SoldOut, NoAvailability >>
  /\ parsed.branch = "UNAVAILABLE"

\* what the code's decision looks at in a page: is a keyword of the park in
\* its lowercase text, which phrases of the two lists are, is there a booking
\* control
Facts(page) ==
  LET text == Lower(get_text(page.elements))
  IN  [keyword |-> \E k \in DOMAIN TargetKeywords : Contains(text, TargetKeywords[k]),
       availability |-> { k \in DOMAIN availability_indicators :
                            Contains(text, availability_indicators[k]) },
       unavailable |-> { k \in DOMAIN unavailable_indicators :
                           Contains(text, unavailable_indicators[k]) },
       control |-> \E k \in DOMAIN page.elements :
                     LET n == page.elements[k]
                     IN  \/ /\ n.tag \in { "button", "a" }
                            /\ n.single
                            /\ \E w \in DOMAIN booking_words :
                                 Contains(Lower(n.text), booking_words[w])
                         \/ /\ n.tag \in { "input", "select" }
                            /\ \E w \in DOMAIN date_words :
                                 Contains(Lower(n.name), date_words[w])]

\* both pages of the pair have been classified and both calls have returned
PairClassified ==
  /\ parsed.branch # "NONE" /\ twin_parsed.branch # "NONE"
  /\ response.wellformed /\ twin.wellformed
  /\ pc # "send"

\* C17: two pages classified for the same park and target date that agree on
\* the presence of a park keyword, on the phrases of both lists they hold and
\* on the booking control, and of which exactly one holds a rendering of the
\* target date, get the same verdict and the same decision to notify: one
\* notification attempt for each of the two when they are AVAILABLE, none
\* for either otherwise.
C17_DateNonGating ==
  (PairClassified /\ Facts(response) = Facts(twin)
     /\ parsed.has_target_date # twin_parsed.has_target_date)
    => /\ parsed.ret = twin_parsed.ret
       /\ parsed.branch = twin_parsed.branch
       /\ parsed.message.kind = twin_parsed.message.kind
       /\ sent["availability"] = IF parsed.branch = "AVAILABLE" THEN 2 ELSE 0

\* an available page without the target date and the same page with it
C17_Witness ==
  /\ PairClassified /\ Facts(response) = Facts(twin)
  /\ ~parsed.has_target_date /\ twin_parsed.has_target_date
  /\ parsed.branch = "AVAILABLE" /\ twin_parsed.branch = "AVAILABLE"
  /\ twin_parsed.message.kind = "availability"
  /\ sent["availability"] = 2

\* C18: the multi-park run goes through the parks in ascending priority, the
\* park of priority 1 first, and moves to the next park only after the last
\* date; both monitors go through the dates in the order today, tomorrow,
\* day after tomorrow; the requests of a unit start at the first candidate
\* URL and follow the list, one URL further each time.
C18_CheckOrder ==
  [][ /\ (monitor = "multi" /\ sorted_parks # <<>>) =>
           /\ Len(sorted_parks) = Len(parks)
           /\ Range(sorted_parks) = Range(parks)
           /\ sorted_parks[1].priority = 1
           /\ \A a, b \in DOMAIN sorted_parks :
                a < b => sorted_parks[a].priority < sorted_parks[b].priority
      /\ (pc = "run" /\ pc' = "unit") => (p' = 1 /\ d' = 1)
      /\ (pc = "unit" /\ pc' = "fetch") => (i' = 1 /\ p' = p /\ d' = d)
      /\ (pc \in { "fetch", "sleep" } /\ pc' = "fetch") =>
           (i' = i + 1 /\ p' = p /\ d' = d)
      /\ (pc = "fetch" /\ pc' \in { "parse", "sleep" }) => (i' = i /\ p' = p /\ d' = d)
      /\ (pc = "sleep_date" /\ pc' = "unit") =>
           (p' = p /\ d' = d + 1 /\ days[d] \in DOMAIN (IF monitor = "multi" THEN park_results ELSE results))
      /\ (pc = "sleep_date" /\ pc' = "sleep_park") => (d = Len(days) /\ p' = p)
      /\ (pc = "sleep_park" /\ pc' = "unit") =>
           /\ p' = p + 1 /\ d' = 1
           /\ sorted_parks[p'].priority > sorted_parks[p].priority
           /\ DOMAIN results[sorted_parks[p].key] = Range(days)
      /\ days = << "today", "tomorrow", "day_after" >>
    ]_vars

\* the first request for the second park, after the three dates of the
\* park of priority 1
C18_Witness ==
  /\ monitor = "multi"
  /\ pc = "fetch" /\ p = 2 /\ d = 1 /\ i = 1
  /\ sorted_parks[1].priority = 1
  /\ DOMAIN results = { sorted_parks[1].key }
  /\ DOMAIN results[sorted_parks[1].key] = Range(days)

\* C19: a call of the classifier that ends AVAILABLE makes one attempt to
\* notify: while it is being made the message carries the URL of the page
\* and the first two, at most, of the availability phrases found; once made
\* it is the only one.  A call that ends on any other branch (UNAVAILABLE,
\* UNCLEAR, NOT_THIS_PARK, parse error) makes none.
C19_OneNotification ==
  Classified =>
    IF parsed.branch = "AVAILABLE"
    THEN \/ /\ pc = "send"
            /\ sent["availability"] = 0
            /\ pending.kind = "availability"
            /\ pending.url = urls_to_check[i]
            /\ pending.park = park_key /\ pending.day = day_labels[days[d]]
            /\ Len(pending.indicators) <= 2
            /\ pending.indicators = SubSeq(parsed.found_availability, 1, Len(pending.indicators))
            /\ Len(pending.indicators) < 2 => pending.indicators = parsed.found_availability
         \/ /\ pc = "found"
            /\ sent["availability"] = 1
            /\ pending = NoMsg
    ELSE /\ parsed.branch \in { "UNAVAILABLE", "UNCLEAR", "NOT_THIS_PARK", "PARSE_ERROR" }
         /\ pc = "sleep"
         /\ sent["availability"] = 0
         /\ pending = NoMsg
         /\ network = {}

\* the message of a page on which three availability phrases were found
C19_Witness ==
  /\ Classified /\ parsed.branch = "AVAILABLE"
  /\ pc = "send"
  /\ Len(parsed.found_availability) = 3
  /\ Len(pending.indicators) = 2
  /\ pending.url = urls_to_check[i]

\* C20: the call of the classifier raises nothing; for a page on which the
\* parser or the processing fails it returns False on no branch of the
\* decision, hands nothing to send_telegram and settles nothing, and the loop
\* goes through its sleep to the next candidate URL of the same unit, or ends
\* the unit after the last one.
C20_ClassifierNeverRaises ==
  [][ /\ (pc = "parse") =>
           /\ raised' = raised
           /\ parsed'.branch # "NONE"
           /\ p' = p /\ d' = d /\ i' = i
           /\ ~response.wellformed =>
                /\ ~parsed'.ret
                /\ parsed'.branch = "PARSE_ERROR"
                /\ parsed'.message = NoMsg
                /\ pending' = NoMsg /\ sent' = sent /\ network' = network
                /\ settled' = settled
                /\ pc' = "sleep"
      /\ (pc = "sleep" /\ parsed.branch = "PARSE_ERROR" /\ raised' = raised) =>
           /\ p' = p /\ d' = d /\ i' = i + 1
           /\ pc' = IF i < Len(urls_to_check) THEN "fetch" ELSE "unit_end"
    ]_vars

\* the classifier has returned for a malformed page, the first candidate URL
\* of its unit, and the loop is at its sleep
C20_Witness ==
  /\ pc = "sleep"
  /\ ~response.wellformed
  /\ parsed.branch = "PARSE_ERROR" /\ ~parsed.ret
  /\ i = 1
  /\ raised = {}
  /\ pending = NoMsg

\* the availability notification attempts made for a unit, the one handed to
\* send_telegram and not yet posted included
\* (a message names its unit by the park and the label of the day)
attempts(u) ==
  LET named == << u[1], day_labels[u[2]] >>
  IN  Count(notified, named)
        + (IF pending.kind = "availability" /\ << pending.park, pending.day >> = named
           THEN 1 ELSE 0)

\* C21 (as claimed): no unit gets more than one availability notification
\* attempt, and in the result check_all_* hands to run_comprehensive_check a
\* unit is available exactly when one attempt was made for it, and a unit that
\* is not available has had none.
C21_UnitAccounting ==
  /\ \A u \in AllUnits : attempts(u) <= 1
  /\ pc = "after_check" =>
       \A u \in AllUnits :
         /\ InResult(returned, u) = "available" <=> attempts(u) = 1
         /\ InResult(returned, u) = "not available" => attempts(u) = 0

\* the fetches the claim allows a unit, and a run
UnitFetches == IF monitor = "multi" THEN 5 ELSE 7

RunFetches ==
  IF monitor = "multi" THEN Len(parks) * 3 * UnitFetches ELSE 3 * UnitFetches

\* is check_all_* under way
Checking == Stage = 4

\* the units whose check returned before the current one was entered
UnitsBefore == (p - 1) * Len(days) + (d - 1)

\* C22: every request of the loop body ends, by a response or by an exception
\* (the timeout); every step takes the run further (Rank is bounded, so the
\* run ends); the requests of a unit are for its candidate URLs in list order,
\* each at most once, so at most 5 of them (7 in the single-park monitor); and
\* a run makes at most parks x 3 x that many requests.
C22_BoundedWork ==
  /\ [](pc = "fetch" => ENABLED (FetchOk \/ FetchNon200 \/ FetchException))
  /\ [][Rank' > Rank]_vars
  /\ [](Rank >= 0 /\ Rank <= 120000)
  /\ [][(fetches' # fetches /\ pc = "fetch") =>
          /\ fetches' = fetches + 1
          /\ requested' = Append(requested, urls_to_check[i])
          /\ \A k \in DOMAIN requested : requested[k] # urls_to_check[i]
     ]_vars
  /\ [](Checking =>
          /\ Len(requested) <= UnitFetches
          /\ requested = SubSeq(urls_to_check, 1, Len(requested))
          /\ \A j, k \in DOMAIN requested : requested[j] = requested[k] => j = k
          /\ fetches <= UnitsBefore * UnitFetches + Len(requested)
               + (IF pc \in { "sleep_date", "sleep_park" } THEN UnitFetches ELSE 0))
  /\ [](fetches <= RunFetches)
  /\ [][pc # "fetch" => (fetches' = fetches \/ fetches' = 0)]_vars

\* the last unit of a run all of whose candidate URLs were requested, as were
\* all those of every unit before it
C22_Witness ==
  /\ pc = "unit_end"
  /\ Len(requested) = UnitFetches
  /\ fetches = RunFetches

====
